---- MODULE Spec2Model ----
(***************************************************************************)
(* Model of battery_dashboard_ai.py: the cell store (cells_data), the      *)
(* history log (historical_data), the sidebar handlers that change them    *)
(* and the status / alert computations of the page render.                 *)
(*                                                                         *)
(* Floats are fixed-point integers:                                        *)
(*   voltage      centivolts   (0.01 V)      3.2 V   -> 320                *)
(*   current      deciamps     (0.1 A)       5 A     -> 50                 *)
(*   temp         decidegrees  (0.1 C)       40 C    -> 400                *)
(*   capacity     centiwatts   (0.01 W), the unit round(..., 2) keeps      *)
(*   health       percent, cycle_count cycles                              *)
(* voltage * current is therefore in milliwatts and round(x, 2) is a real  *)
(* rounding of milliwatts to centiwatts (Round2).                          *)
(*                                                                         *)
(* cells_data is a dict filled in the order cell_1 .. cell_n, so it is a   *)
(* sequence whose index i stands for the key "cell_i" and whose order is   *)
(* the dict's iteration order.                                             *)
(***************************************************************************)
EXTENDS Integers, Sequences, FiniteSets, TLC

VARIABLES cells_data,       \* st.session_state.cells_data
          historical_data,  \* st.session_state.historical_data
          now,              \* the clock datetime.datetime.now() reads; it moves on with every script run
          alerts,           \* the alerts list built by the last render
          status,           \* get_cell_status of every cell at the last render
          lastOp            \* the handler the last script run executed, with its inputs

vars == <<cells_data, historical_data, now, alerts, status, lastOp>>

----------------------------------------------------------------------------
(* Bounds of the model *)

MaxCells == 2
MaxRuns == 3
MaxRunsLong == 12
MaxFnCells == 2

----------------------------------------------------------------------------
(* Program constants *)

CELL_CONFIGS ==
    [lfp |-> [nominal_voltage |-> 320, min_voltage |-> 280, max_voltage |-> 360],
     nmc |-> [nominal_voltage |-> 360, min_voltage |-> 320, max_voltage |-> 400]]

CellTypes == {"lfp", "nmc"}

NumCellsMin == 1
InitVoltageSpread == 10
InitCurrentMax == 50
InitTempMin == 250
InitTempMax == 400
InitCycleMax == 1000
InitHealthMin == 80
InitHealthMax == 100
TickVoltageDelta == 5
TickCurrentDelta == 2
TickTempDelta == 10
TempFloor == 200
TempCeil == 500
CriticalTemp == 450
WarningTemp == 400
LowHealth == 70
SetCurrentMin == 0
SetCurrentMax == 100

----------------------------------------------------------------------------
(* Helpers *)

Max(a, b) == IF a >= b THEN a ELSE b
Min(a, b) == IF a <= b THEN a ELSE b

\* round(x, 2) of a product given in milliwatts: nearest centiwatt, ties to
\* the even neighbour (Python's round); \div is floor, so negatives work.
Round2(mw) ==
    LET q == mw \div 10
        r == mw % 10
    IN  IF r < 5 THEN q
        ELSE IF r > 5 THEN q + 1
        ELSE IF q % 2 = 0 THEN q ELSE q + 1

NoOp == [op |-> "none", cell |-> 0, v |-> 0]
Op(name) == [op |-> name, cell |-> 0, v |-> 0]

----------------------------------------------------------------------------
(* get_cell_status *)

\* variant: the Warning test is made before the Critical one
get_cell_status_WarningFirst(cell_data) ==
    LET voltage == cell_data.voltage
        temp    == cell_data.temp
        min_v   == cell_data.min_voltage
        max_v   == cell_data.max_voltage
    IN  IF temp > WarningTemp \/ voltage < min_v \/ voltage > max_v
        THEN "Warning"
        ELSE IF temp > CriticalTemp \/ 10 * voltage < 9 * min_v \/ 100 * voltage > 105 * max_v
        THEN "Critical"
        ELSE "Good"

get_cell_status(cell_data) ==
    LET voltage == cell_data.voltage
        temp    == cell_data.temp
        min_v   == cell_data.min_voltage
        max_v   == cell_data.max_voltage
    IN  IF temp > CriticalTemp \/ 10 * voltage < 9 * min_v \/ 100 * voltage > 105 * max_v
        THEN "Critical"
        ELSE IF temp > WarningTemp \/ voltage < min_v \/ voltage > max_v
        THEN "Warning"
        ELSE "Good"

----------------------------------------------------------------------------
(* The alerts loop of the Reports tab *)

Alert(kind, cell_id, value) == [kind |-> kind, cell_id |-> cell_id, value |-> value]

\* variant: the high-temperature test is an `if`, not an `elif`
CellAlerts_BothTempAlerts(cell_id, cell_data) ==
    (IF cell_data.temp > CriticalTemp
       THEN <<Alert("critical_temp", cell_id, cell_data.temp)>>
       ELSE <<>>)
    \o (IF cell_data.temp > WarningTemp
          THEN <<Alert("high_temp", cell_id, cell_data.temp)>>
          ELSE <<>>)
    \o (IF cell_data.health < LowHealth
          THEN <<Alert("low_health", cell_id, cell_data.health)>>
          ELSE <<>>)
    \o (IF cell_data.voltage < cell_data.min_voltage
          THEN <<Alert("low_voltage", cell_id, cell_data.voltage)>>
          ELSE <<>>)

CellAlerts(cell_id, cell_data) ==
    (IF cell_data.temp > CriticalTemp
       THEN <<Alert("critical_temp", cell_id, cell_data.temp)>>
       ELSE IF cell_data.temp > WarningTemp
       THEN <<Alert("high_temp", cell_id, cell_data.temp)>>
       ELSE <<>>)
    \o (IF cell_data.health < LowHealth
          THEN <<Alert("low_health", cell_id, cell_data.health)>>
          ELSE <<>>)
    \o (IF cell_data.voltage < cell_data.min_voltage
          THEN <<Alert("low_voltage", cell_id, cell_data.voltage)>>
          ELSE <<>>)

RECURSIVE AlertsUpTo(_, _)
AlertsUpTo(store, n) ==
    IF n = 0 THEN <<>>
    ELSE AlertsUpTo(store, n - 1) \o CellAlerts(n, store[n])

Alerts(store) == AlertsUpTo(store, Len(store))

Statuses(store) == [i \in 1..Len(store) |-> get_cell_status(store[i])]

\* The rest of the script after the sidebar: st.stop() on an empty store,
\* otherwise the tabs are rendered from the store as the handler left it.
\* (Streamlit raises in the Cell Management tab when a cell's current has
\* drifted above the number input's max_value; that failure of the page is
\* not modelled, the lists below are what the loops compute from the store.)
Render(store) ==
    /\ alerts' = IF store = <<>> THEN <<>> ELSE Alerts(store)
    /\ status' = IF store = <<>> THEN <<>> ELSE Statuses(store)

----------------------------------------------------------------------------
(* Initialize Cells *)

NewCell(d) ==
    LET config == CELL_CONFIGS[d.type]
    IN  [type         |-> d.type,
         voltage      |-> config.nominal_voltage + d.voff,
         current      |-> d.current,
         temp         |-> d.temp,
         min_voltage  |-> config.min_voltage,
         max_voltage  |-> config.max_voltage,
         capacity     |-> 0,
         cycle_count  |-> d.cycle_count,
         health       |-> d.health]

CalculateCapacity(cell) ==
    [cell EXCEPT !.capacity = Round2(cell.voltage * cell.current)]

\* What the random module can return for one cell of Initialize Cells.
InitRange ==
    [type : CellTypes,
     voff : (-InitVoltageSpread)..InitVoltageSpread,
     current : 0..InitCurrentMax,
     temp : InitTempMin..InitTempMax,
     cycle_count : 0..InitCycleMax,
     health : InitHealthMin..InitHealthMax]

\* variant: a fresh set of cells starts a fresh history
Initialize_ClearsHistory(Ns, Draws) ==
    \E num_cells \in Ns :
    \E draw \in [1..num_cells -> Draws] :
        LET fresh == [i \in 1..num_cells |-> NewCell(draw[i])]
            store == [i \in 1..num_cells |-> CalculateCapacity(fresh[i])]
        IN  /\ cells_data' = store
            /\ historical_data' = <<>>
            /\ lastOp' = Op("initialize")
            /\ Render(store)

Initialize(Ns, Draws) ==
    \E num_cells \in Ns :
    \E draw \in [1..num_cells -> Draws] :
        LET fresh == [i \in 1..num_cells |-> NewCell(draw[i])]
            store == [i \in 1..num_cells |-> CalculateCapacity(fresh[i])]
        IN  /\ cells_data' = store
            /\ UNCHANGED historical_data
            /\ lastOp' = Op("initialize")
            /\ Render(store)

----------------------------------------------------------------------------
(* Simulate Real-time Update *)

\* variant: the voltage is not clamped
TickCell_NoVoltageClamp(cell, d) ==
    LET voltage  == cell.voltage + d.dv
        current  == cell.current + d.dc
        temp     == cell.temp + d.dt
        capacity == Round2(voltage * current)
    IN  [cell EXCEPT
            !.voltage  = voltage,
            !.current  = Max(0, current),
            !.temp     = Max(TempFloor, Min(TempCeil, temp)),
            !.capacity = capacity]

\* variant: every update wears the cell, health drops by one percent
TickCell_DecaysHealth(cell, d) ==
    LET voltage  == cell.voltage + d.dv
        current  == cell.current + d.dc
        temp     == cell.temp + d.dt
        capacity == Round2(voltage * current)
    IN  [cell EXCEPT
            !.voltage  = Max(cell.min_voltage, Min(cell.max_voltage, voltage)),
            !.current  = Max(0, current),
            !.temp     = Max(TempFloor, Min(TempCeil, temp)),
            !.capacity = capacity,
            !.health   = cell.health - 1]

TickCell(cell, d) ==
    LET voltage  == cell.voltage + d.dv
        current  == cell.current + d.dc
        temp     == cell.temp + d.dt
        capacity == Round2(voltage * current)
    IN  [cell EXCEPT
            !.voltage  = Max(cell.min_voltage, Min(cell.max_voltage, voltage)),
            !.current  = Max(0, current),
            !.temp     = Max(TempFloor, Min(TempCeil, temp)),
            !.capacity = capacity]

\* What the random module can return for one cell of one update.
TickRange ==
    [dv : (-TickVoltageDelta)..TickVoltageDelta,
     dc : (-TickCurrentDelta)..TickCurrentDelta,
     dt : (-TickTempDelta)..TickTempDelta]

HistoryRecord(timestamp, cell_id, cell_data) ==
    [timestamp    |-> timestamp,
     cell_id      |-> cell_id,
     type         |-> cell_data.type,
     voltage      |-> cell_data.voltage,
     current      |-> cell_data.current,
     temp         |-> cell_data.temp,
     min_voltage  |-> cell_data.min_voltage,
     max_voltage  |-> cell_data.max_voltage,
     capacity     |-> cell_data.capacity,
     cycle_count  |-> cell_data.cycle_count,
     health       |-> cell_data.health]

\* variant: datetime.now() is read inside the loop, once per cell
HistoryRecords_ClockPerCell(timestamp, store) ==
    [i \in 1..Len(store) |-> HistoryRecord(timestamp + (i - 1), i, store[i])]

HistoryRecords(timestamp, store) ==
    [i \in 1..Len(store) |-> HistoryRecord(timestamp, i, store[i])]

Tick(Draws) ==
    \E draw \in [1..Len(cells_data) -> Draws] :
        LET store == [i \in 1..Len(cells_data) |-> TickCell(cells_data[i], draw[i])]
            timestamp == now
        IN  /\ cells_data' = store
            /\ historical_data' = historical_data \o HistoryRecords(timestamp, store)
            /\ lastOp' = Op("tick")
            /\ Render(store)

----------------------------------------------------------------------------
(* Emergency Stop *)

StopCell(cell) == [cell EXCEPT !.current = 0]

\* variant: the stop is logged like an update
EmergencyStop_LogsSnapshot ==
    LET store == [i \in 1..Len(cells_data) |-> StopCell(cells_data[i])]
    IN  /\ cells_data' = store
        /\ historical_data' = historical_data \o HistoryRecords(now, store)
        /\ lastOp' = Op("emergency_stop")
        /\ Render(store)

EmergencyStop ==
    LET store == [i \in 1..Len(cells_data) |-> StopCell(cells_data[i])]
    IN  /\ cells_data' = store
        /\ UNCHANGED historical_data
        /\ lastOp' = Op("emergency_stop")
        /\ Render(store)

----------------------------------------------------------------------------
(* Reset All Data *)

Reset ==
    /\ cells_data' = <<>>
    /\ historical_data' = <<>>
    /\ lastOp' = Op("reset")
    /\ Render(<<>>)

----------------------------------------------------------------------------
(* Update Current (Cell Management tab) *)

\* st.number_input(min_value=0.0, max_value=10.0): a value outside the range
\* is not committed by the widget, so the button's handler never sees it.
\* variant: the widget has no min_value
NumberInputAccepts_NoMinimum(v) == v <= SetCurrentMax

NumberInputAccepts(v) == SetCurrentMin <= v /\ v <= SetCurrentMax

UpdateCell(cell, new_current) ==
    [cell EXCEPT !.current = new_current,
                 !.capacity = Round2(cell.voltage * new_current)]

SetCurrent(Vs) ==
    \E selected_cell \in 1..Len(cells_data) :
    \E new_current \in Vs :
        LET store == IF NumberInputAccepts(new_current)
                     THEN [cells_data EXCEPT
                             ![selected_cell] = UpdateCell(cells_data[selected_cell], new_current)]
                     ELSE cells_data
        IN  /\ cells_data' = store
            /\ UNCHANGED historical_data
            /\ lastOp' = [op   |-> IF NumberInputAccepts(new_current)
                                   THEN "set_current" ELSE "set_current_rejected",
                          cell |-> selected_cell,
                          v    |-> new_current]
            /\ Render(store)

----------------------------------------------------------------------------
(* Specification: every handler, a few script runs deep *)

\* One script run: the wall clock has moved on since the previous one.
Clock(maxNow) == now < maxNow /\ now' = now + 1

InitDraws ==
    {[type |-> "lfp", voff |-> 10,  current |-> 1,  temp |-> 400, cycle_count |-> 0,    health |-> 80],
     [type |-> "nmc", voff |-> -10, current |-> 50, temp |-> 250, cycle_count |-> 1000, health |-> 100]}

TickDraws ==
    {[dv |-> 5,  dc |-> -2, dt |-> 10],
     [dv |-> -5, dc |-> 2,  dt |-> -10]}

CurrentInputs == {-1, 0, 25, 100, 101}

Init ==
    /\ cells_data = <<>>
    /\ historical_data = <<>>
    /\ now = 0
    /\ alerts = <<>>
    /\ status = <<>>
    /\ lastOp = NoOp

Next ==
    \/ Clock(MaxRuns) /\ Initialize(NumCellsMin..MaxCells, InitDraws)
    \/ Clock(MaxRuns) /\ Tick(TickDraws)
    \/ Clock(MaxRuns) /\ EmergencyStop
    \/ Clock(MaxRuns) /\ Reset
    \/ Clock(MaxRuns) /\ SetCurrent(CurrentInputs)

Spec == Init /\ [][Next]_vars

----------------------------------------------------------------------------
(* Specification: one cell, Initialize Cells once and then many updates,   *)
(* deep enough for every clamp of the update to act                        *)

LongTickDraws ==
    {[dv |-> 5,  dc |-> 2,  dt |-> 10],
     [dv |-> -5, dc |-> -2, dt |-> -10],
     [dv |-> 3,  dc |-> -1, dt |-> 4]}

NextLong ==
    \/ Clock(MaxRunsLong) /\ cells_data = <<>> /\ Initialize({NumCellsMin}, InitDraws)
    \/ Clock(MaxRunsLong) /\ Tick(LongTickDraws)

SpecLong == Init /\ [][NextLong]_vars

----------------------------------------------------------------------------
(* Specification: get_cell_status and the alerts loop as functions of an   *)
(* arbitrary store, one render of the page                                 *)

FnCell(type, voltage, temp, health) ==
    [type         |-> type,
     voltage      |-> voltage,
     current      |-> 0,
     temp         |-> temp,
     min_voltage  |-> CELL_CONFIGS[type].min_voltage,
     max_voltage  |-> CELL_CONFIGS[type].max_voltage,
     capacity     |-> 0,
     cycle_count  |-> 0,
     health       |-> health]

FnCells ==
    {FnCell("lfp", v, t, h) : v \in {250, 252, 279, 280, 360, 361, 378, 379},
                              t \in {400, 401, 450, 460},
                              h \in {60, 70}}
    \cup
    {FnCell("nmc", v, t, 70) : v \in {287, 288, 420, 421}, t \in {400, 460}}

InitFn ==
    /\ \E n \in 1..MaxFnCells : cells_data \in [1..n -> FnCells]
    /\ historical_data = <<>>
    /\ now = 0
    /\ alerts = <<>>
    /\ status = <<>>
    /\ lastOp = NoOp

\* A script run in which no button is pressed: only the page is rendered.
RenderOnly ==
    /\ UNCHANGED <<cells_data, historical_data, now>>
    /\ lastOp' = Op("render")
    /\ Render(cells_data)

NextFn == RenderOnly

SpecFn == InitFn /\ [][NextFn]_vars

----------------------------------------------------------------------------
(* The draws and inputs of the specifications are values the random module *)
(* and the widgets can deliver                                             *)

DrawsWithinRanges ==
    /\ InitDraws \subseteq InitRange
    /\ TickDraws \subseteq TickRange
    /\ LongTickDraws \subseteq TickRange

----------------------------------------------------------------------------
(* Vocabulary of the properties *)

CellFields ==
    {"type", "voltage", "current", "temp", "min_voltage", "max_voltage",
     "capacity", "cycle_count", "health"}

\* capacity (centiwatts) is voltage * current (milliwatts) rounded to two decimals
WithinRounding(capacity, voltage, current) ==
    LET diff == 10 * capacity - voltage * current
    IN  -5 <= diff /\ diff <= 5

IsPrefix(s, t) == Len(s) <= Len(t) /\ SubSeq(t, 1, Len(s)) = s

\* a step in which a script run happened (every run moves the clock)
RealStep == now' # now

KindsOf(cell_id) ==
    LET mine == SelectSeq(alerts, LAMBDA a : a.cell_id = cell_id)
    IN  [k \in 1..Len(mine) |-> mine[k].kind]

KindRank(kind) ==
    CASE kind = "critical_temp" -> 1
      [] kind = "high_temp"     -> 1
      [] kind = "low_health"    -> 2
      [] kind = "low_voltage"   -> 3

Occurs(kind, kinds) == \E k \in 1..Len(kinds) : kinds[k] = kind

----------------------------------------------------------------------------
(* C1: after Initialize Cells and after every update, every cell's capacity *)
(* is its stored voltage times its stored current, to two decimals.         *)
(* The update computes capacity before it clamps, so the stored current     *)
(* (or voltage) of a clamped cell no longer matches its capacity.           *)
C1_CapacityIsProduct ==
    lastOp.op \in {"initialize", "tick"} =>
        \A i \in 1..Len(cells_data) :
            WithinRounding(cells_data[i].capacity, cells_data[i].voltage, cells_data[i].current)

(* C2: after Emergency Stop every cell has current 0 and capacity 0.        *)
(* The handler sets current only; capacity keeps its old value.             *)
C2_StopZeroesCurrentAndCapacity ==
    lastOp.op = "emergency_stop" =>
        \A i \in 1..Len(cells_data) :
            cells_data[i].current = 0 /\ cells_data[i].capacity = 0

(* C3: after Initialize Cells followed by any number of updates, every cell *)
(* has min_voltage <= voltage <= max_voltage of its chemistry, current >= 0 *)
(* and 20 <= temperature <= 50.                                             *)
C3_CellsWithinBounds ==
    \A i \in 1..Len(cells_data) :
        LET cell == cells_data[i]
        IN  /\ CELL_CONFIGS[cell.type].min_voltage <= cell.voltage
            /\ cell.voltage <= CELL_CONFIGS[cell.type].max_voltage
            /\ cell.min_voltage = CELL_CONFIGS[cell.type].min_voltage
            /\ cell.max_voltage = CELL_CONFIGS[cell.type].max_voltage
            /\ cell.current >= 0
            /\ 200 <= cell.temp /\ cell.temp <= 500

\* two successive updates left the cell at its maximum voltage and at 50 C:
\* no draw is zero, so the later update overshot both and was clamped
C3_Witness ==
    /\ lastOp.op = "tick"
    /\ Len(cells_data) = 1
    /\ \E k \in 1..(Len(historical_data) - 1) :
        /\ historical_data[k].voltage = historical_data[k].max_voltage
        /\ historical_data[k + 1].voltage = historical_data[k + 1].max_voltage
        /\ historical_data[k].temp = 500
        /\ historical_data[k + 1].temp = 500
        /\ cells_data[1].temp = 500

(* C4: one update over a store of n cells appends exactly n records to the  *)
(* end of the history, one per cell id in store order, all with the same    *)
(* timestamp, each equal to that cell's state after the update's clamping;  *)
(* an update of an empty store appends nothing.                             *)
C4_TickAppendsSnapshot ==
    [][(RealStep /\ lastOp'.op = "tick") =>
        LET n    == Len(cells_data')
            base == Len(historical_data)
        IN  /\ n = Len(cells_data)
            /\ Len(historical_data') = base + n
            /\ \A i \in 1..n :
                LET r == historical_data'[base + i]
                IN  /\ r.cell_id = i
                    /\ r.timestamp = historical_data'[base + 1].timestamp
                    /\ \A f \in CellFields : r[f] = cells_data'[i][f]
       ]_vars

C4_Witness ==
    /\ lastOp.op = "tick"
    /\ Len(cells_data) = 2
    /\ Len(historical_data) = 4
    /\ cells_data[1] # cells_data[2]
    /\ historical_data[3].timestamp = historical_data[4].timestamp
    /\ historical_data[3].timestamp # historical_data[1].timestamp

(* C5: the history is append-only: for every operation other than Reset     *)
(* the history before it is an unchanged prefix of the history after it.    *)
C5_AppendOnly ==
    [][lastOp'.op # "reset" => IsPrefix(historical_data, historical_data')]_vars

\* the record of an earlier update is still there, with the values the update
\* gave the cell, after the store was re-initialised to other values
C5_Witness ==
    /\ lastOp.op = "initialize"
    /\ Len(historical_data) >= 1
    /\ Len(cells_data) >= 1
    /\ historical_data[1].cell_id = 1
    /\ historical_data[1].voltage # cells_data[1].voltage

(* C6: Emergency Stop changes nothing but current and capacity: voltage,    *)
(* temperature and every other field of every cell, the set of cells and    *)
(* the history are the same after it as before.                             *)
C6_StopFrame ==
    [][(RealStep /\ lastOp'.op = "emergency_stop") =>
        /\ Len(cells_data') = Len(cells_data)
        /\ \A i \in 1..Len(cells_data) :
            \A f \in CellFields \ {"current", "capacity"} :
                cells_data'[i][f] = cells_data[i][f]
        /\ historical_data' = historical_data
       ]_vars

\* a stop that acted: the last update recorded a positive current, now it is 0
C6_Witness ==
    /\ lastOp.op = "emergency_stop"
    /\ Len(cells_data) = 2
    /\ Len(historical_data) > 0
    /\ historical_data[Len(historical_data)].current > 0
    /\ \A i \in 1..2 : cells_data[i].current = 0

C8_StatusRule ==
    lastOp.op = "render" =>
        /\ DOMAIN status = 1..Len(cells_data)
        /\ \A i \in 1..Len(cells_data) :
            LET cell     == cells_data[i]
                critical == \/ cell.temp > 450
                            \/ 10 * cell.voltage < 9 * cell.min_voltage
                            \/ 100 * cell.voltage > 105 * cell.max_voltage
                warning  == \/ cell.temp > 400
                            \/ cell.voltage < cell.min_voltage
                            \/ cell.voltage > cell.max_voltage
            IN  /\ status[i] = "Critical" <=> critical
                /\ status[i] = "Warning"  <=> (~critical /\ warning)
                /\ status[i] = "Good"     <=> (~critical /\ ~warning)
                /\ cell.temp = 460 => status[i] = "Critical"

\* 46 C with a voltage inside the envelope: Critical, although Warning's test holds too
C8_Witness ==
    /\ lastOp.op = "render"
    /\ \E i \in 1..Len(cells_data) :
        /\ cells_data[i].temp = 460
        /\ cells_data[i].voltage = 280
        /\ cells_data[i].min_voltage = 280
        /\ status[i] = "Critical"

(* C9: the alerts list visits the cells in store order and gives for each   *)
(* cell, in this order, at most one temperature alert (critical above 45,   *)
(* else high above 40), a low-health alert below 70 and a low-voltage alert *)
(* below min_voltage; a cell at 46 C, health 60, 2.5 V with min 2.8 V gives *)
(* critical-temperature, low-health, low-voltage.                           *)
C9_AlertsRule ==
    lastOp.op = "render" =>
        /\ \A k \in 1..(Len(alerts) - 1) : alerts[k].cell_id <= alerts[k + 1].cell_id
        /\ \A k \in 1..Len(alerts) : alerts[k].cell_id \in 1..Len(cells_data)
        /\ \A i \in 1..Len(cells_data) :
            LET cell  == cells_data[i]
                kinds == KindsOf(i)
            IN  /\ \A k \in 1..(Len(kinds) - 1) : KindRank(kinds[k]) < KindRank(kinds[k + 1])
                /\ Occurs("critical_temp", kinds) <=> cell.temp > 450
                /\ Occurs("high_temp", kinds) <=> (cell.temp > 400 /\ ~(cell.temp > 450))
                /\ Occurs("low_health", kinds) <=> cell.health < 70
                /\ Occurs("low_voltage", kinds) <=> cell.voltage < cell.min_voltage
                /\ (cell.temp = 460 /\ cell.health = 60 /\ cell.voltage = 250
                        /\ cell.min_voltage = 280)
                    => kinds = <<"critical_temp", "low_health", "low_voltage">>

C9_Witness ==
    /\ lastOp.op = "render"
    /\ Len(cells_data) = 2
    /\ cells_data[2].temp = 460 /\ cells_data[2].health = 60
    /\ cells_data[2].voltage = 250 /\ cells_data[2].min_voltage = 280
    /\ cells_data[1].temp = 401
    /\ Len(alerts) = 4

(* C10: in every state reachable by any sequence of Initialize Cells,       *)
(* update, set_current, Emergency Stop and Reset, every cell has min <=     *)
(* voltage <= max and health >= 80, and health and cycle_count change only  *)
(* with the store itself; so no low-voltage or low-health alert is shown, a *)
(* status other than Good comes with a temperature above 40 C, and every    *)
(* cell is Good right after Initialize Cells.                               *)
C10_State ==
    /\ DOMAIN status = 1..Len(cells_data)
    /\ \A i \in 1..Len(cells_data) :
        LET cell == cells_data[i]
        IN  /\ cell.min_voltage <= cell.voltage /\ cell.voltage <= cell.max_voltage
            /\ cell.health >= 80
            /\ status[i] # "Good" => cell.temp > 400
            /\ status[i] = "Critical" => cell.temp > 450
            /\ lastOp.op = "initialize" => status[i] = "Good"
    /\ \A k \in 1..Len(alerts) : alerts[k].kind \notin {"low_voltage", "low_health"}

C10_Frozen ==
    (RealStep /\ lastOp'.op \notin {"initialize", "reset"}) =>
        /\ Len(cells_data') = Len(cells_data)
        /\ \A i \in 1..Len(cells_data) :
            /\ cells_data'[i].health = cells_data[i].health
            /\ cells_data'[i].cycle_count = cells_data[i].cycle_count

====
